---- MODULE Spec2Model ----
(***************************************************************************)
(* The ESP-IDF bootloader image format of espflash:                        *)
(* IdfBootloaderFormat::new (header check and patch, segment merging,      *)
(* alignment padding, serialisation, checksum, digest, partition check)    *)
(* and the ImageFormat facade, from                                        *)
(* src/espflash/src/image_format/idf_bootloader.rs.                        *)
(*                                                                         *)
(* A byte vector (Vec<u8>, &[u8]) is kept run-length encoded: a sequence   *)
(* of runs [b |-> byte, n |-> count], n > 0, no two neighbouring runs with *)
(* the same byte.  The encoding is lossless and canonical, so equality of  *)
(* encodings is equality of byte vectors, and a 64 KiB padding costs one   *)
(* run.  Option<T> is a sequence: <<>> for None, <<v>> for Some(v).        *)
(***************************************************************************)
EXTENDS Integers, Sequences, FiniteSets, TLC

\* ------------------------------------------------------------ constants

IROM_ALIGN == 65536
SEG_HEADER_LEN == 8
BUG_THRESHOLD == 36
ESP_MAGIC == 233
ESP_CHECKSUM_MAGIC == 239
WP_PIN_DISABLED == 238
U8 == 256
F32_MANT == 16777216

\* ------------------------------------------------------- byte vectors

Run(b, n) == IF n = 0 THEN <<>> ELSE <<[b |-> b, n |-> n]>>

DCat(x, y) ==
  IF x = <<>> THEN y
  ELSE IF y = <<>> THEN x
  ELSE IF x[Len(x)].b = y[1].b
       THEN SubSeq(x, 1, Len(x) - 1)
              \o <<[b |-> y[1].b, n |-> x[Len(x)].n + y[1].n]>>
              \o Tail(y)
       ELSE x \o y

RECURSIVE Bytes(_)
Bytes(s) == IF s = <<>> THEN <<>> ELSE DCat(Run(Head(s), 1), Bytes(Tail(s)))

RECURSIVE SumRuns(_, _, _)
SumRuns(d, lo, hi) ==
  IF lo > hi THEN 0
  ELSE IF lo = hi THEN d[lo].n
  ELSE LET mid == (lo + hi) \div 2
       IN SumRuns(d, lo, mid) + SumRuns(d, mid + 1, hi)

DLen(d) == SumRuns(d, 1, Len(d))

RECURSIVE DTake(_, _)
DTake(d, k) ==
  IF k = 0 \/ d = <<>> THEN <<>>
  ELSE IF d[1].n >= k THEN Run(d[1].b, k)
  ELSE <<d[1]>> \o DTake(Tail(d), k - d[1].n)

RECURSIVE DDrop(_, _)
DDrop(d, k) ==
  IF k = 0 \/ d = <<>> THEN d
  ELSE IF d[1].n > k THEN <<[b |-> d[1].b, n |-> d[1].n - k]>> \o Tail(d)
  ELSE DDrop(Tail(d), k - d[1].n)

\* The byte at index i (from 0), scanning from the front.
RECURSIVE DAt(_, _)
DAt(d, i) == IF i < d[1].n THEN d[1].b ELSE DAt(Tail(d), i - d[1].n)

\* The byte k places before the end (k = 1: the last byte), scanning from the back.
RECURSIVE DAtBack(_, _, _)
DAtBack(d, j, k) == IF k <= d[j].n THEN d[j].b ELSE DAtBack(d, j - 1, k - d[j].n)

\* d with the byte at index i (from 0) replaced by v.
DSet(d, i, v) == DCat(DCat(DTake(d, i), Run(v, 1)), DDrop(d, i + 1))

RECURSIVE Xor(_, _)
Xor(a, b) ==
  IF a = 0 /\ b = 0 THEN 0
  ELSE (((a % 2) + (b % 2)) % 2) + 2 * Xor(a \div 2, b \div 2)

LE32(v) == <<v % 256, (v \div 256) % 256, (v \div 65536) % 256, (v \div 16777216) % 256>>

\* ------------------------------------------------- elf::CodeSegment

Seg(addr, data) == [addr |-> addr, data |-> data]

\* CodeSegment::size
size(segment) == DLen(segment.data)

\* CodeSegment::split_off(count): the head that is split off, and what remains.
split_off_head(segment, count) ==
  IF count < size(segment) THEN Seg(segment.addr, DTake(segment.data, count))
  ELSE segment

split_off_rest(segment, count) ==
  IF count < size(segment)
  THEN Seg(segment.addr + count, DDrop(segment.data, count))
  ELSE Seg(segment.addr + size(segment), <<>>)

\* CodeSegment += &[u8]
add_assign(segment, bytes) == Seg(segment.addr, DCat(segment.data, bytes))

\* Ord for CodeSegment compares the addresses only.
cmp_less(a, b) == a.addr < b.addr

\* Vec::sort, a stable sort: an element goes after every element that is not
\* greater than it.
RECURSIVE insert_sorted(_, _)
insert_sorted(sorted, x) ==
  IF sorted = <<>> THEN <<x>>
  ELSE IF cmp_less(x, Head(sorted)) THEN <<x>> \o sorted
  ELSE <<Head(sorted)>> \o insert_sorted(Tail(sorted), x)

RECURSIVE sort_from(_, _)
sort_from(acc, rest) ==
  IF rest = <<>> THEN acc ELSE sort_from(insert_sorted(acc, Head(rest)), Tail(rest))

sort(segments) == sort_from(<<>>, segments)

\* update_checksum: the XOR of the bytes folded into the checksum.
RECURSIVE update_checksum(_, _)
update_checksum(data, checksum) ==
  IF data = <<>> THEN checksum
  ELSE update_checksum(Tail(data),
         IF data[1].n % 2 = 1 THEN Xor(checksum, data[1].b) ELSE checksum)

\* ------------------------------------------------------ the functions

\* The folding loop of merge_adjacent_segments over the sorted segments.
RECURSIVE merge_fold(_, _)
merge_fold(merged, segments) ==
  IF segments = <<>> THEN merged
  ELSE LET segment == Head(segments)
           n == Len(merged)
       IN IF n > 0 /\ merged[n].addr + size(merged[n]) = segment.addr
          THEN merge_fold([merged EXCEPT ![n] = add_assign(merged[n], segment.data)],
                          Tail(segments))
          ELSE merge_fold(Append(merged, segment), Tail(segments))

\* The merge without the sort.
merge_adjacent_segments_unsorted(segments) == merge_fold(<<>>, segments)

merge_adjacent_segments(segments) == merge_fold(<<>>, sort(segments))

\* The padding with the header's 8 bytes left out of the alignment.
get_segment_padding_unshifted(offset, segment) ==
  LET align_past == segment.addr % IROM_ALIGN
      pad_len == ((IROM_ALIGN - (offset % IROM_ALIGN)) + align_past) % IROM_ALIGN
  IN IF pad_len = 0 \/ pad_len = IROM_ALIGN THEN 0
     ELSE IF pad_len > SEG_HEADER_LEN THEN pad_len - SEG_HEADER_LEN
     ELSE pad_len + IROM_ALIGN - SEG_HEADER_LEN

\* The padding with a gap shorter than a header not carried to the next page.
get_segment_padding_unbumped(offset, segment) ==
  LET align_past == (segment.addr - SEG_HEADER_LEN) % IROM_ALIGN
      pad_len == ((IROM_ALIGN - (offset % IROM_ALIGN)) + align_past) % IROM_ALIGN
  IN IF pad_len = 0 \/ pad_len = IROM_ALIGN THEN 0
     ELSE IF pad_len > SEG_HEADER_LEN THEN pad_len - SEG_HEADER_LEN
     ELSE pad_len

get_segment_padding(offset, segment) ==
  LET align_past == (segment.addr - SEG_HEADER_LEN) % IROM_ALIGN
      pad_len == ((IROM_ALIGN - (offset % IROM_ALIGN)) + align_past) % IROM_ALIGN
  IN IF pad_len = 0 \/ pad_len = IROM_ALIGN THEN 0
     ELSE IF pad_len > SEG_HEADER_LEN THEN pad_len - SEG_HEADER_LEN
     ELSE pad_len + IROM_ALIGN - SEG_HEADER_LEN

\* The output buffer: its bytes, and how many SegmentHeaders were written to it.
Buf(bytes, seghdrs) == [bytes |-> bytes, seghdrs |-> seghdrs]

write_all(buf, bytes) == Buf(DCat(buf.bytes, bytes), buf.seghdrs)

\* data.write_all(bytes_of(&SegmentHeader { addr, length }))
write_segment_header(buf, addr, length) ==
  Buf(DCat(buf.bytes, Bytes(LE32(addr) \o LE32(length))), buf.seghdrs + 1)

\* save_segment with the checksum started anew instead of carried on.
save_segment_reseeded(buf, segment, checksum) ==
  LET padding == (4 - (size(segment) % 4)) % 4
      b1 == write_segment_header(buf, segment.addr, size(segment) + padding)
      b2 == write_all(b1, segment.data)
      b3 == write_all(b2, Run(0, padding))
  IN [data |-> b3, checksum |-> update_checksum(segment.data, ESP_CHECKSUM_MAGIC)]

\* save_segment: the buffer and the checksum after it.
save_segment(buf, segment, checksum) ==
  LET padding == (4 - (size(segment) % 4)) % 4
      b1 == write_segment_header(buf, segment.addr, size(segment) + padding)
      b2 == write_all(b1, segment.data)
      b3 == write_all(b2, Run(0, padding))
  IN [data |-> b3, checksum |-> update_checksum(segment.data, checksum)]

\* save_flash_segment's test: the segment would end less than 0x24 past a page.
workaround_applies(offset, segment) ==
  (offset + size(segment) + SEG_HEADER_LEN) % IROM_ALIGN < BUG_THRESHOLD

save_flash_segment(buf, segment, checksum) ==
  LET end_pos == DLen(buf.bytes) + size(segment) + SEG_HEADER_LEN
      segment_reminder == end_pos % IROM_ALIGN
      extended == IF workaround_applies(DLen(buf.bytes), segment)
                  THEN add_assign(segment, Run(0, BUG_THRESHOLD - segment_reminder))
                  ELSE segment
  IN save_segment(buf, extended, checksum)

\* --------------------------------------------- flash settings, headers

None == <<>>
Some(v) == <<v>>

\* Result<u8, Error> of the encoders, and of new.
Ok(v) == [kind |-> "Ok", err |-> "", a |-> v, b |-> 0]
Err(e, a, b) == [kind |-> "Err", err |-> e, a |-> a, b |-> b]
Panic == [kind |-> "Panic", err |-> "", a |-> 0, b |-> 0]
Pending == [kind |-> "Pending", err |-> "", a |-> 0, b |-> 0]

FlashModes == {"Qio", "Qout", "Dio", "Dout"}

\* `mode as u8`
flash_mode_u8(mode) ==
  CASE mode = "Qio" -> 0 [] mode = "Qout" -> 1 [] mode = "Dio" -> 2 [] mode = "Dout" -> 3

FlashSizes ==
  {"_256Kb", "_512Kb", "_1Mb", "_2Mb", "_4Mb", "_8Mb", "_16Mb", "_32Mb", "_64Mb", "_128Mb"}

\* `size as u8`
flash_size_u8(fs) ==
  CASE fs = "_256Kb" -> 18 [] fs = "_512Kb" -> 19 [] fs = "_1Mb" -> 20
    [] fs = "_2Mb" -> 21 [] fs = "_4Mb" -> 22 [] fs = "_8Mb" -> 23
    [] fs = "_16Mb" -> 24 [] fs = "_32Mb" -> 25 [] fs = "_64Mb" -> 26
    [] fs = "_128Mb" -> 33

\* FlashSize::size, in bytes
flash_size_bytes(fs) ==
  CASE fs = "_256Kb" -> 262144 [] fs = "_512Kb" -> 524288 [] fs = "_1Mb" -> 1048576
    [] fs = "_2Mb" -> 2097152 [] fs = "_4Mb" -> 4194304 [] fs = "_8Mb" -> 8388608
    [] fs = "_16Mb" -> 16777216 [] fs = "_32Mb" -> 33554432 [] fs = "_64Mb" -> 67108864
    [] fs = "_128Mb" -> 134217728

encode_flash_size(fs) ==
  CASE fs = "_1Mb" -> Ok(0)
    [] fs = "_2Mb" -> Ok(16)
    [] fs = "_4Mb" -> Ok(32)
    [] fs = "_8Mb" -> Ok(48)
    [] fs = "_16Mb" -> Ok(64)
    [] fs = "_32Mb" -> Ok(25)
    [] fs = "_64Mb" -> Ok(26)
    [] fs = "_128Mb" -> Ok(33)
    [] OTHER -> Err("UnsupportedFlash", flash_size_u8(fs), 0)

FlashFrequencies == {"_12Mhz", "_20Mhz", "_26Mhz", "_40Mhz", "_80Mhz"}

\* encode_flash_frequency, for Chip::Esp32: the frequency's nibble, or the
\* unsupported-frequency error.
encode_flash_frequency(chip, f) ==
  CASE f = "_20Mhz" -> Ok(2)
    [] f = "_26Mhz" -> Ok(1)
    [] f = "_40Mhz" -> Ok(0)
    [] f = "_80Mhz" -> Ok(15)
    [] OTHER -> Err("UnsupportedFlashFrequency", 0, 0)

\* EspCommonHeader, 8 bytes: magic, segment_count, flash_mode, flash_config, entry.
from_bytes(b) ==
  [magic |-> b[1], segment_count |-> b[2], flash_mode |-> b[3], flash_config |-> b[4],
   entry |-> b[5] + 256 * b[6] + 65536 * b[7] + 16777216 * b[8]]

bytes_of_header(h) ==
  <<h.magic, h.segment_count, h.flash_mode, h.flash_config>> \o LE32(h.entry)

\* ExtendedHeader, 16 bytes (repr(C)): wp_pin, three drive bytes, chip_id (u16),
\* min_rev, padding [u8; 8], append_digest.
bytes_of_extended_header(chip_id) ==
  <<WP_PIN_DISABLED, 0, 0, 0, chip_id % 256, chip_id \div 256, 0,
    0, 0, 0, 0, 0, 0, 0, 0, 1>>

\* The flash_config byte after the match on (flash_size, flash_freq); u8 addition.
patch_flash_config(chip, flash_config, flash_size, flash_freq) ==
  IF flash_size # None /\ flash_freq # None THEN
    LET s == encode_flash_size(flash_size[1])
        f == encode_flash_frequency(chip, flash_freq[1])
    IN IF s.kind = "Err" THEN s
       ELSE IF f.kind = "Err" THEN f
       ELSE Ok((s.a + f.a) % U8)
  ELSE IF flash_size # None THEN
    LET s == encode_flash_size(flash_size[1])
    IN IF s.kind = "Err" THEN s ELSE Ok((s.a + (flash_config % 16)) % U8)
  ELSE IF flash_freq # None THEN
    LET f == encode_flash_frequency(chip, flash_freq[1])
    IN IF f.kind = "Err" THEN f ELSE Ok(((flash_config - (flash_config % 16)) + f.a) % U8)
  ELSE Ok(flash_config)

\* ------------------------------------------------------ partition table

Partition(name, type, offset, psize) ==
  [name |-> name, type |-> type, offset |-> offset, size |-> psize]

\* Esp32Params::default_partition_table
default_partition_table(params, flash_size_opt) ==
  << Partition("nvs", "Data", params.nvs_addr, params.nvs_size),
     Partition("phy_init", "Data", params.phy_init_data_addr, params.phy_init_data_size),
     Partition("factory", "App", params.app_addr,
               IF flash_size_opt = None THEN params.app_size
               ELSE flash_size_opt[1] - params.app_addr) >>

\* PartitionTable::find(name), find_by_type(type): the first match, as an Option.
find(table, name) ==
  LET hits == {i \in 1..Len(table) : table[i].name = name}
  IN IF hits = {} THEN None
     ELSE Some(table[CHOOSE i \in hits : \A j \in hits : i <= j])

find_by_type(table, type) ==
  LET hits == {i \in 1..Len(table) : table[i].type = type}
  IN IF hits = {} THEN None
     ELSE Some(table[CHOOSE i \in hits : \A j \in hits : i <= j])

\* The partition the image goes to: "factory", else the first app partition.
factory_partition(table) ==
  IF find(table, "factory") # None THEN find(table, "factory")[1]
  ELSE find_by_type(table, "App")[1]

\* PartitionTable::to_bin: one entry per partition, then the end marker.
RECURSIVE to_bin_entries(_)
to_bin_entries(table) ==
  IF table = <<>> THEN <<>>
  ELSE <<"entry", Head(table).name, Head(table).type>>
         \o LE32(Head(table).offset) \o LE32(Head(table).size)
         \o to_bin_entries(Tail(table))

to_bin(table) == to_bin_entries(table) \o <<"md5">>

\* ------------------------------------------------ the size comparison

RECURSIVE Log2(_)
Log2(n) == IF n < 2 THEN 0 ELSE 1 + Log2(n \div 2)

RECURSIVE Pow2(_)
Pow2(e) == IF e = 0 THEN 1 ELSE 2 * Pow2(e - 1)

\* `n as f32`: the nearest value with a 24-bit significand, ties to even.
as_f32(n) ==
  IF n < F32_MANT THEN n
  ELSE LET ulp == Pow2(Log2(n) - 23)
           q == n \div ulp
           r == n % ulp
       IN IF 2 * r > ulp \/ (2 * r = ulp /\ q % 2 = 1) THEN (q + 1) * ulp
          ELSE q * ulp

\* `a / b > 1.0` for f32 a, b > 0: the quotient rounds to 1.0 (ties to even)
\* unless a / b exceeds 1 + 2^-24, that is unless (a - b) * 2^24 > b.
f32_div_gt_one(a, b) == a > b /\ (a - b) > (b \div F32_MANT)

\* app_size as f32 / part_size as f32 > 1.0
too_big(app_size, part_size) == f32_div_gt_one(as_f32(app_size), as_f32(part_size))

\* ------------------------------------------------------------- state

VARIABLES
  inp,              \* the arguments of IdfBootloaderFormat::new
  pc,               \* where new is: load, patch, headers, pad, save_flash, ram,
                    \* validate, then sealed (Ok) or failed (Err, panic)
  step,             \* the step that led here
  partition_table,  \* the table in use
  bootloader,       \* the bootloader's bytes (Cow), patched in place
  header,           \* the EspCommonHeader read from the bootloader
  data,             \* the application image so far
  flash_segments,   \* merged flash segments not yet written; the head is `segment`
  ram_segments,     \* merged RAM segments not yet (wholly) written
  checksum,
  segment_count,
  result,           \* what new returned
  format,           \* Some(the IdfBootloaderFormat built), else None
  reads,            \* what the calls of flash_segments / ota_segments yielded
  events            \* what the padding loop and the workaround did so far

vars == <<inp, pc, step, partition_table, bootloader, header, data, flash_segments,
          ram_segments, checksum, segment_count, result, format, reads, events>>

NoHeader == [magic |-> 0, segment_count |-> 0, flash_mode |-> 0, flash_config |-> 0,
             entry |-> 0]

InitWith(i) ==
  /\ inp = i
  /\ pc = "load"
  /\ step = "new"
  /\ partition_table = <<>>
  /\ bootloader = <<>>
  /\ header = NoHeader
  /\ data = Buf(<<>>, 0)
  /\ flash_segments = <<>>
  /\ ram_segments = <<>>
  /\ checksum = 0
  /\ segment_count = 0
  /\ result = Pending
  /\ format = None
  /\ reads = <<>>
  /\ events = {}

\* The digest of the image: 32 bytes, left uninterpreted (the byte -1).
sha256(bytes) == Run(-1, 32)

\* ------------------------------------------------------------ actions

\* Lines 56-70: the partition table and bootloader in use, the empty buffer, and
\* the bootloader's header; slicing [0..8] of a shorter bootloader panics.
LoadHeader ==
  /\ pc = "load"
  /\ step' = "LoadHeader"
  /\ partition_table' =
       IF inp.partition_table # None THEN inp.partition_table[1]
       ELSE default_partition_table(inp.params,
              IF inp.flash_size = None THEN None
              ELSE Some(flash_size_bytes(inp.flash_size[1])))
  /\ bootloader' =
       IF inp.bootloader # None THEN inp.bootloader[1] ELSE inp.params.default_bootloader
  /\ data' = Buf(<<>>, 0)
  /\ IF Len(bootloader') < 8
     THEN /\ result' = Panic
          /\ pc' = "failed"
          /\ header' = header
     ELSE /\ header' = from_bytes(SubSeq(bootloader', 1, 8))
          /\ IF header'.magic # ESP_MAGIC
             THEN result' = Err("InvalidBootloader", 0, 0) /\ pc' = "failed"
             ELSE result' = result /\ pc' = "patch"
  /\ UNCHANGED <<events, inp, flash_segments, ram_segments, checksum, segment_count, format, reads>>

\* Lines 72-93: the overrides, patched into the header and into bytes 2 and 3 of
\* the bootloader.
PatchHeader ==
  /\ pc = "patch"
  /\ step' = "PatchHeader"
  /\ LET h1 == IF inp.flash_mode # None
               THEN [header EXCEPT !.flash_mode = flash_mode_u8(inp.flash_mode[1])]
               ELSE header
         b1 == IF inp.flash_mode # None
               THEN [bootloader EXCEPT ![3] = bytes_of_header(h1)[3]]
               ELSE bootloader
         cfg == patch_flash_config(inp.chip, h1.flash_config, inp.flash_size, inp.flash_freq)
     IN IF cfg.kind = "Err"
        THEN /\ result' = cfg
             /\ pc' = "failed"
             /\ header' = h1
             /\ bootloader' = b1
        ELSE LET h2 == [h1 EXCEPT !.flash_config = cfg.a]
             IN /\ header' = h2
                /\ bootloader' =
                     IF inp.flash_size # None \/ inp.flash_freq # None
                     THEN [b1 EXCEPT ![4] = bytes_of_header(h2)[4]]
                     ELSE b1
                /\ result' = result
                /\ pc' = "headers"
  /\ UNCHANGED <<events, inp, partition_table, data, flash_segments, ram_segments, checksum,
                 segment_count, format, reads>>

\* Lines 95-115: the image's two headers, the merged segment lists, the checksum
\* seed and the count.
WriteHeaders ==
  /\ pc = "headers"
  /\ step' = "WriteHeaders"
  /\ header' = [header EXCEPT !.entry = inp.image.entry]
  /\ data' = write_all(write_all(data, Bytes(bytes_of_header(header'))),
                       Bytes(bytes_of_extended_header(inp.params.chip_id)))
  /\ flash_segments' = merge_adjacent_segments(inp.image.rom)
  /\ ram_segments' = merge_adjacent_segments(inp.image.ram)
  /\ checksum' = ESP_CHECKSUM_MAGIC
  /\ segment_count' = 0
  /\ pc' = IF flash_segments' = <<>> THEN "ram" ELSE "pad"
  /\ UNCHANGED <<events, inp, partition_table, bootloader, result, format, reads>>

\* The flash segment of the current iteration of `for segment in flash_segments`.
segment == Head(flash_segments)

\* Lines 119-132: padding longer than a header, and a RAM segment is left: its
\* first pad_len bytes are written as a segment.
PadBorrow ==
  /\ pc = "pad"
  /\ LET pad_len == get_segment_padding(DLen(data.bytes), segment)
     IN /\ pad_len > 0
        /\ pad_len > SEG_HEADER_LEN
        /\ ram_segments # <<>>
        /\ LET pad_segment == split_off_head(ram_segments[1], pad_len)
               ram_segment == split_off_rest(ram_segments[1], pad_len)
               saved == save_segment(data, pad_segment, checksum)
           IN /\ data' = saved.data
              /\ checksum' = saved.checksum
              /\ ram_segments' = IF ram_segment.data = <<>> THEN Tail(ram_segments)
                                 ELSE <<ram_segment>> \o Tail(ram_segments)
              /\ segment_count' = segment_count + 1
              /\ events' = events \cup {"borrow"}
                     \cup (IF size(pad_segment) < pad_len THEN {"borrow_short"} ELSE {})
                     \cup (IF size(pad_segment) % 4 # 0 THEN {"borrow_unaligned"} ELSE {})
                     \cup (IF ram_segment.data # <<>> THEN {"borrow_split"} ELSE {})
  /\ step' = "PadBorrow"
  /\ pc' = "pad"
  /\ UNCHANGED <<inp, partition_table, bootloader, header, flash_segments, result,
                 format, reads>>

\* Lines 120, 135-145: a padding segment of pad_len zero bytes at address 0.
PadZero ==
  /\ pc = "pad"
  /\ LET pad_len == get_segment_padding(DLen(data.bytes), segment)
     IN /\ pad_len > 0
        /\ ~(pad_len > SEG_HEADER_LEN /\ ram_segments # <<>>)
        /\ data' = write_all(write_segment_header(data, 0, pad_len), Run(0, pad_len))
        /\ segment_count' = segment_count + 1
        /\ events' = events \cup {"zero"}
  /\ step' = "PadZero"
  /\ pc' = "pad"
  /\ UNCHANGED <<inp, partition_table, bootloader, header, flash_segments, ram_segments,
                 checksum, result, format, reads>>

\* Lines 119-120, 146-148: no padding is needed, the loop is left.
PadBreak ==
  /\ pc = "pad"
  /\ get_segment_padding(DLen(data.bytes), segment) = 0
  /\ step' = "PadBreak"
  /\ pc' = "save_flash"
  /\ UNCHANGED <<events, inp, partition_table, bootloader, header, data, flash_segments,
                 ram_segments, checksum, segment_count, result, format, reads>>

\* Lines 151-153: the flash segment is written, and the next one is taken.
SaveFlash ==
  /\ pc = "save_flash"
  /\ LET saved == save_flash_segment(data, segment, checksum)
     IN data' = saved.data /\ checksum' = saved.checksum
  /\ segment_count' = segment_count + 1
  /\ flash_segments' = Tail(flash_segments)
  /\ events' = events \cup (IF workaround_applies(DLen(data.bytes), segment)
                            THEN {"extended"} ELSE {})
  /\ step' = "SaveFlash"
  /\ pc' = IF flash_segments' = <<>> THEN "ram" ELSE "pad"
  /\ UNCHANGED <<inp, partition_table, bootloader, header, ram_segments, result, format,
                 reads>>

\* Lines 155-158: one remaining RAM segment is written.
SaveRam ==
  /\ pc = "ram"
  /\ ram_segments # <<>>
  /\ LET saved == save_segment(data, ram_segments[1], checksum)
     IN data' = saved.data /\ checksum' = saved.checksum
  /\ segment_count' = segment_count + 1
  /\ ram_segments' = Tail(ram_segments)
  /\ step' = "SaveRam"
  /\ pc' = "ram"
  /\ UNCHANGED <<events, inp, partition_table, bootloader, header, flash_segments, result, format,
                 reads>>

\* Lines 160-172: zero bytes up to 15 mod 16, the checksum byte, the count patched
\* into byte 1 (`segment_count as u8`), the digest.
Finalize ==
  /\ pc = "ram"
  /\ ram_segments = <<>>
  /\ LET padding == 15 - (DLen(data.bytes) % 16)
         d1 == write_all(write_all(data, Run(0, padding)), Run(checksum, 1))
         d2 == Buf(DSet(d1.bytes, 1, segment_count % U8), d1.seghdrs)
     IN data' = write_all(d2, sha256(d2.bytes))
  /\ step' = "Finalize"
  /\ pc' = "validate"
  /\ UNCHANGED <<events, inp, partition_table, bootloader, header, flash_segments, ram_segments,
                 checksum, segment_count, result, format, reads>>

\* Lines 178-205: the partition, the size check, the value returned.
Validate ==
  /\ pc = "validate"
  /\ LET part == factory_partition(partition_table)
         app_size == DLen(data.bytes)
         part_size == part.size
     IN IF too_big(app_size, part_size)
        THEN /\ result' = Err("ElfTooBig", app_size, part_size)
             /\ format' = None
             /\ pc' = "failed"
        ELSE /\ result' = Ok(0)
             /\ format' = Some([params |-> inp.params,
                                bootloader |-> bootloader,
                                partition_table |-> partition_table,
                                flash_segment |-> [addr |-> part.offset, data |-> data.bytes],
                                app_size |-> app_size,
                                part_size |-> part_size])
             /\ pc' = "sealed"
  /\ step' = "Validate"
  /\ UNCHANGED <<events, inp, partition_table, bootloader, header, data, flash_segments,
                 ram_segments, checksum, segment_count, reads>>

\* flash_segments with the partition table ahead of the bootloader.
flash_segments_of_table_first(self) ==
  << [addr |-> self.params.partition_addr, data |-> to_bin(self.partition_table)],
     [addr |-> self.params.boot_addr, data |-> self.bootloader],
     self.flash_segment >>

\* ImageFormat::flash_segments (lines 209-224), collected.
flash_segments_of(self) ==
  << [addr |-> self.params.boot_addr, data |-> self.bootloader],
     [addr |-> self.params.partition_addr, data |-> to_bin(self.partition_table)],
     self.flash_segment >>

\* ImageFormat::ota_segments (lines 226-231), collected.
ota_segments_of(self) == << self.flash_segment >>

MaxReads == 2

ReadFlashSegments ==
  /\ pc = "sealed"
  /\ Len(reads) < MaxReads
  /\ reads' = Append(reads, [fn |-> "flash_segments", segs |-> flash_segments_of(format[1])])
  /\ step' = "ReadFlashSegments"
  /\ UNCHANGED <<events, inp, pc, partition_table, bootloader, header, data, flash_segments,
                 ram_segments, checksum, segment_count, result, format>>

ReadOtaSegments ==
  /\ pc = "sealed"
  /\ Len(reads) < MaxReads
  /\ reads' = Append(reads, [fn |-> "ota_segments", segs |-> ota_segments_of(format[1])])
  /\ step' = "ReadOtaSegments"
  /\ UNCHANGED <<events, inp, pc, partition_table, bootloader, header, data, flash_segments,
                 ram_segments, checksum, segment_count, result, format>>

\* The steps of IdfBootloaderFormat::new.
Build ==
  \/ LoadHeader
  \/ PatchHeader
  \/ WriteHeaders
  \/ PadBorrow
  \/ PadZero
  \/ PadBreak
  \/ SaveFlash
  \/ SaveRam
  \/ Finalize
  \/ Validate

\* The construction, then the reads of the facade.
Next ==
  \/ Build
  \/ ReadFlashSegments
  \/ ReadOtaSegments

\* ------------------------------------------------------------ inputs

MaxFlashSegs == 2
MaxRamSegs == 2
MaxMergeSegs == 3

\* A bootloader: its common header (magic, segment count, mode, config, entry) and
\* the first bytes of what follows.
BootloaderWith(magic, mode, config) == <<magic, 3, mode, config, 0, 0, 8, 64, 7, 7>>

\* Esp32Params::new(0x1000, 0x1_0000, 0x3f_0000, 0, bootloader), lines 341-347.
PARAMS ==
  [boot_addr |-> 4096, partition_addr |-> 32768, nvs_addr |-> 36864, nvs_size |-> 24576,
   phy_init_data_addr |-> 61440, phy_init_data_size |-> 4096, app_addr |-> 65536,
   app_size |-> 4128768, chip_id |-> 0,
   default_bootloader |-> BootloaderWith(ESP_MAGIC, 2, 32)]

Input(bl, mode, fsize, freq, table, rom, ram) ==
  [chip |-> "Esp32", params |-> PARAMS, partition_table |-> table, bootloader |-> bl,
   flash_mode |-> mode, flash_size |-> fsize, flash_freq |-> freq,
   image |-> [entry |-> 1074536448, rom |-> rom, ram |-> ram]]

\* Flash segment i (in the i-th MiB of the IROM window at 0x400D0000) starting
\* `low` bytes into a 64 KiB page, len bytes long.  rom_segments(chip) yields
\* segments of the chip's flash-mapped windows only, so addr - SEG_HEADER_LEN
\* never wraps.
FlashSeg(i, shape) ==
  Seg(1074593792 + (i - 1) * 1048576 + shape.low,
      DCat(Run(80 + i, 1), Run(195, shape.len - 1)))

\* RAM segment i (in the i-th MiB from 0x3F000000), len bytes long.
RamSeg(i, len) ==
  Seg(1056964608 + (i - 1) * 1048576,
      IF len = 0 THEN <<>> ELSE DCat(Run(16 + i, 1), Run(126, len - 1)))

\* Where a flash segment starts in its page and how long it is: aligned as the
\* buffer is after the headers (0x20), with a padding of 8 (0x30), of 65520 (0x18)
\* and of 65536 (0x28), at an odd address (0x21); ending on the 0x24 threshold,
\* 0x10 past a page (extended), and 3 bytes before a page with a length that is
\* not a multiple of 4.
FlashShapes ==
  { [low |-> 32, len |-> 4], [low |-> 32, len |-> 65501], [low |-> 48, len |-> 65504],
    [low |-> 33, len |-> 7], [low |-> 24, len |-> 20], [low |-> 40, len |-> 64] }

RamLens == {0, 3, 70000}

\* The flash segments are handed over in descending order of address.
RomListsOf(n) ==
  UNION { { [i \in 1..k |-> FlashSeg(k + 1 - i, f[k + 1 - i])] : f \in [1..k -> FlashShapes] }
          : k \in 0..n }

RamListsOf(n) ==
  UNION { { [i \in 1..k |-> RamSeg(i, f[i])] : f \in [1..k -> RamLens] } : k \in 0..n }

Plain(rom, ram) == Input(None, None, None, None, None, rom, ram)

CoreInputs ==
  { Plain(rom, ram) : rom \in RomListsOf(MaxFlashSegs), ram \in RamListsOf(MaxRamSegs) }

TableOf(psize) == <<Partition("factory", "App", 65536, psize)>>

\* One flash segment at an odd address and one RAM segment of 256 pages: the
\* padding is filled by more than 256 pieces of the RAM segment.
ManyPiecesInputs ==
  { Input(None, None, None, None, Some(TableOf(33554432)),
          <<FlashSeg(1, [low |-> 33, len |-> 7])>>,
          <<Seg(1056964608, DCat(Run(17, 1), Run(126, U8 * IROM_ALIGN - 1)))>>) }

\* A RAM segment of n bytes (a multiple of 16) gives an image of n + 80 bytes.
SizeCases ==
  { <<32, 111>>, <<32, 112>>, <<32, 113>>,
    <<16777152, 16777216>>, <<16777152, 16777232>>,
    <<268435392, 268435456>>, <<268435392, 268435472>>, <<268435392, 268435488>> }

SizeInputs ==
  { Input(None, None, None, None, Some(TableOf(c[2])), <<>>,
          <<Seg(1056964608, Run(126, c[1]))>>) : c \in SizeCases }

\* The failing calls, and a table without a "factory" partition.
EdgeInputs ==
  LET rom == <<FlashSeg(1, [low |-> 48, len |-> 65504])>>
      ram == <<RamSeg(1, 16)>>
  IN { Input(Some(<<>>), None, None, None, None, rom, ram),
       Input(Some(<<233, 3, 2, 32>>), None, None, None, None, rom, ram),
       Input(Some(BootloaderWith(0, 2, 32)), None, None, None, None, rom, ram),
       Input(None, Some("Dout"), Some("_256Kb"), None, None, rom, ram),
       Input(None, None, None, Some("_12Mhz"), None, rom, ram),
       Input(None, None, Some("_4Mb"), Some("_12Mhz"), None, rom, ram),
       Input(None, None, None, None, Some(TableOf(64)), rom, ram),
       Input(None, Some("Dout"), Some("_4Mb"), Some("_80Mhz"),
             Some(<<Partition("nvs", "Data", 36864, 24576),
                    Partition("ota_0", "App", 131072, 1048576),
                    Partition("ota_1", "App", 1179648, 1048576)>>), rom, ram) }

\* A few whole builds: borrowed and zero-filled padding, RAM left over.
SmallInputs ==
  { Plain(<<FlashSeg(1, sh)>>, ram) :
      sh \in {[low |-> 24, len |-> 20], [low |-> 48, len |-> 65504]},
      ram \in {<<>>, <<RamSeg(1, 16)>>, <<RamSeg(1, 70000)>>} }

PriorModes == {2, 127}
PriorConfigs == {0, 15, 32, 47, 90, 240, 255}
Opt(S) == {None} \cup {Some(x) : x \in S}

\* Every override against a range of prior header bytes, and bootloaders of every
\* length up to a whole header.
HeaderInputs ==
  { Input(Some(BootloaderWith(ESP_MAGIC, m, c)), mode, fsize, freq, None,
          <<FlashSeg(1, [low |-> 32, len |-> 4])>>, <<RamSeg(1, 16)>>) :
      m \in PriorModes, c \in PriorConfigs, mode \in Opt(FlashModes),
      fsize \in Opt(FlashSizes), freq \in Opt(FlashFrequencies) }
  \cup
  { Input(Some(SubSeq(BootloaderWith(magic, 2, 32), 1, n)), mode, None, None, None,
          <<FlashSeg(1, [low |-> 32, len |-> 4])>>, <<RamSeg(1, 16)>>) :
      magic \in {ESP_MAGIC, 0, 234}, n \in 0..10, mode \in Opt({"Dout"}) }

\* Segments for merging: shared, adjacent and overlapping addresses, empty data.
MergeSegs ==
  { Seg(1074593824 + a, d) : a \in 0..2, d \in {<<>>, Bytes(<<1>>), Bytes(<<2, 3>>)} }

MergeInputs ==
  { Plain(rom, <<RamSeg(1, 16)>>) :
      rom \in UNION { [1..k -> MergeSegs] : k \in 0..MaxMergeSegs } }

\* The whole program, over the header inputs: the construction and the reads.
Init == \E i \in HeaderInputs \cup EdgeInputs \cup SmallInputs : InitWith(i)
Spec == Init /\ [][Next]_vars

\* The construction alone, over the segment inputs.
InitBuild ==
  \E i \in CoreInputs \cup ManyPiecesInputs \cup SizeInputs \cup EdgeInputs : InitWith(i)
SpecBuild == InitBuild /\ [][Build]_vars

\* The construction alone, over the merge inputs.
InitMerge == \E i \in MergeInputs \cup EdgeInputs \cup SmallInputs : InitWith(i)
SpecMerge == InitMerge /\ [][Build]_vars

\* Whether a step of new is possible: it has not returned.
BuildEnabled == pc \notin {"sealed", "failed"}

\* new runs to its end, nothing else is scheduled: weak fairness of Build, which is
\* WF_vars(Build) with ENABLED <<Build>>_vars written out as BuildEnabled.
Fairness == []<>(~BuildEnabled) \/ []<><<Build>>_vars
SpecLive == InitBuild /\ [][Build]_vars /\ Fairness

\* ------------------------------------------------------------ claims

\* The bootloader bytes new was given (the override, else the chip's default).
GivenBootloader ==
  IF inp.bootloader # None THEN inp.bootloader[1] ELSE inp.params.default_bootloader

\* C1: each flash override changes only its own field of the bootloader header: a
\* mode override alone changes only byte 2, a frequency override alone only the
\* low nibble of byte 3, a size override alone only the high nibble of byte 3,
\* and no other byte of the bootloader changes.
C1_OverrideChangesOnlyItsField ==
  (step = "PatchHeader" /\ pc = "headers") =>
    LET orig == GivenBootloader
        mode == inp.flash_mode
        fsize == inp.flash_size
        freq == inp.flash_freq
    IN /\ Len(bootloader) = Len(orig)
       /\ \A k \in 1..Len(orig) : k \notin {3, 4} => bootloader[k] = orig[k]
       /\ (mode # None /\ fsize = None /\ freq = None) =>
            /\ bootloader[3] = flash_mode_u8(mode[1])
            /\ bootloader[4] = orig[4]
       /\ (mode = None /\ fsize = None /\ freq # None) =>
            /\ bootloader[3] = orig[3]
            /\ bootloader[4] % 16 = encode_flash_frequency(inp.chip, freq[1]).a
            /\ bootloader[4] \div 16 = orig[4] \div 16
       /\ (mode = None /\ fsize # None /\ freq = None) =>
            /\ bootloader[3] = orig[3]
            /\ bootloader[4] \div 16 = encode_flash_size(fsize[1]).a \div 16
            /\ bootloader[4] % 16 = orig[4] % 16

\* C2: the build fails with the image-too-large error, carrying both sizes, exactly
\* when the image is larger than the partition.
C2_TooLargeExactlyWhenLarger ==
  step = "Validate" =>
    LET app_size == DLen(data.bytes)
        part_size == factory_partition(partition_table).size
    IN IF app_size > part_size
       THEN result = Err("ElfTooBig", app_size, part_size)
       ELSE result.kind = "Ok"

\* C3: after a successful build the segment-count byte at offset 1 of the image
\* equals the number of segment headers written into the buffer.
C3_CountByteIsHeaderCount ==
  pc = "sealed" => DAt(format[1].flash_segment.data, 1) = data.seghdrs

\* All orders of a list of segments.
Reorderings(s) == { [i \in 1..Len(s) |-> s[f[i]]] : f \in Permutations(1..Len(s)) }

DistinctAddrs(s) == \A i, j \in 1..Len(s) : i # j => s[i].addr # s[j].addr

\* C4 as stated: merging any permutation of the segments handed over yields the
\* list that merging them as handed over yields.
C4_MergeOrderIndependent ==
  step = "WriteHeaders" =>
    \A p \in Reorderings(inp.image.rom) : merge_adjacent_segments(p) = flash_segments

\* C4, amended: when no two segments share a start address, merging any
\* permutation of them yields the same list (zero-length and overlapping
\* segments included).
C4_MergeOrderIndependentDistinct ==
  (step = "WriteHeaders" /\ DistinctAddrs(inp.image.rom)) =>
    \A p \in Reorderings(inp.image.rom) : merge_adjacent_segments(p) = flash_segments

C4_Witness ==
  /\ step = "WriteHeaders"
  /\ Len(inp.image.rom) = 3
  /\ DistinctAddrs(inp.image.rom)
  /\ inp.image.rom[1].addr > inp.image.rom[3].addr
  /\ \E i \in 1..3 : inp.image.rom[i].data = <<>>
  /\ Len(flash_segments) = 2

\* The XOR of all bytes of the segments, from the seed.
RECURSIVE XorOfRuns(_)
XorOfRuns(d) ==
  IF d = <<>> THEN 0
  ELSE Xor(IF d[1].n % 2 = 1 THEN d[1].b ELSE 0, XorOfRuns(Tail(d)))

RECURSIVE XorOfSegments(_)
XorOfSegments(segs) ==
  IF segs = <<>> THEN 0 ELSE Xor(XorOfRuns(Head(segs).data), XorOfSegments(Tail(segs)))

\* C5: the checksum byte of the image is ESP_CHECKSUM_MAGIC XOR every data byte of
\* the merged flash and RAM segments, whatever was borrowed, padded or extended.
C5_ChecksumIsXorOfSegmentBytes ==
  pc \in {"validate", "sealed"} =>
    DAtBack(data.bytes, Len(data.bytes), 33) =
      Xor(ESP_CHECKSUM_MAGIC,
          Xor(XorOfSegments(merge_adjacent_segments(inp.image.rom)),
              XorOfSegments(merge_adjacent_segments(inp.image.ram))))

C5_Witness ==
  /\ pc = "sealed"
  /\ {"borrow_split", "borrow_unaligned", "zero", "extended"} \subseteq events
  /\ DAtBack(data.bytes, Len(data.bytes), 33) # ESP_CHECKSUM_MAGIC

\* C6: a bootloader whose first 8 bytes are not a header with the magic byte, of
\* any length, makes new return InvalidBootloader, with nothing patched and no image.
C6_BadBootloaderIsInvalidBootloader ==
  (pc # "load" /\ (Len(GivenBootloader) < 8 \/ GivenBootloader[1] # ESP_MAGIC)) =>
    /\ result = Err("InvalidBootloader", 0, 0)
    /\ bootloader = GivenBootloader
    /\ format = None
    /\ data.bytes = <<>>

\* C7: flash_segments yields the bootloader at boot_addr, the encoded partition
\* table at partition_addr and the image at the selected partition's offset, in
\* this order; ota_segments yields the image alone; every read yields the same.
C7_FacadeSegments ==
  \A k \in 1..Len(reads) :
    LET app == [addr |-> factory_partition(partition_table).offset, data |-> data.bytes]
    IN IF reads[k].fn = "flash_segments"
       THEN reads[k].segs =
              << [addr |-> inp.params.boot_addr, data |-> bootloader],
                 [addr |-> inp.params.partition_addr, data |-> to_bin(partition_table)],
                 app >>
       ELSE reads[k].segs = <<app>>

C7_Witness ==
  /\ Len(reads) = 2
  /\ reads[1].fn = "flash_segments"
  /\ reads[2].fn = "flash_segments"
  /\ bootloader # GivenBootloader
  /\ find(partition_table, "factory") = None

\* C8: when the padding loop is left for a flash segment, the buffer length is
\* congruent to (segment.addr - 8) modulo 0x10000.
C8_AlignedWhenLoopExits ==
  pc = "save_flash" =>
    DLen(data.bytes) % IROM_ALIGN = (segment.addr - SEG_HEADER_LEN) % IROM_ALIGN

C8_Witness ==
  /\ pc = "save_flash"
  /\ {"borrow_short", "borrow_unaligned", "borrow_split", "zero"} \subseteq events
  /\ Len(inp.image.rom) = 1

\* C9: after a flash segment is written (header, data, extension, alignment
\* padding) the buffer ends at least 0x24 bytes past a 64 KiB boundary.
C9_FlashSegmentEndsPastThreshold ==
  step = "SaveFlash" => DLen(data.bytes) % IROM_ALIGN >= BUG_THRESHOLD

\* The bytes of the pending RAM segments.
RECURSIVE RamBytes(_)
RamBytes(segs) == IF segs = <<>> THEN 0 ELSE size(Head(segs)) + RamBytes(Tail(segs))

\* C10: the padding loop ends: a borrowing iteration shrinks the pending RAM list
\* (fewer bytes, or an empty segment removed), a zero-fill iteration leaves no
\* padding to compute, and a build that has merged its segments comes to the point
\* where all flash and RAM segments are written.
C10_PaddingLoopTerminates ==
  /\ [][PadBorrow => \/ RamBytes(ram_segments') < RamBytes(ram_segments)
                     \/ Len(ram_segments') < Len(ram_segments)]_vars
  /\ [](step = "PadZero" => get_segment_padding(DLen(data.bytes), segment) = 0)
  /\ [](step = "WriteHeaders" =>
          <>(pc = "validate" /\ flash_segments = <<>> /\ ram_segments = <<>>))

C10_Witness ==
  /\ pc = "validate"
  /\ {"borrow_short", "borrow_split", "zero"} \subseteq events
  /\ \E i \in 1..Len(inp.image.ram) : inp.image.ram[i].data = <<>>
  /\ Len(inp.image.rom) = 2

====
